---------------------------- MODULE Spec2Model ----------------------------
(***************************************************************************)
(* The note editor page (NoteEditor.tsx): the draft, the debounced         *)
(* auto-save, the manual save, the delete action and the calls to the      *)
(* Notes Service they make.                                                *)
(*                                                                         *)
(* One editing session is one mounted NoteEditor component.  React state   *)
(* (useState) and refs (useRef) are the variables; every event handler,    *)
(* timer callback and promise continuation is one action.  A timer         *)
(* callback runs the handleAutoSave of the render that armed it, so every  *)
(* pending timer carries the title, content, saving and autoSaveStatus of  *)
(* that render.  A handler runs together with the render and the effects    *)
(* its state updates cause: the updates of one handler are batched, and no  *)
(* other event is handled before the effects of that render have run.       *)
(***************************************************************************)
EXTENDS Naturals, Sequences, FiniteSets

(* ----------------------------- bounds --------------------------------- *)

\* longest content string
MaxLen == 2
\* longest title string
MaxTitleLen == 1
\* most debounce timers pending at once
MaxTimers == 2
\* most Notes Service calls outstanding at once
MaxInFlight == 3
\* most notes one session lets the Notes Service create
MaxCreated == 2

\* most notes the backend creates
MaxNotes == 1
\* most backend requests between their lookup and their write
MaxPending == 2
\* most reset tokens forgotPassword issues
MaxTokens == 2
\* the last reading of the backend's clock
MaxTime == 2

(* ----------------------------- strings -------------------------------- *)

\* characters of a draft: one white-space character, one other
Chars == {" ", "a"}

\* the contents a draft can hold
Strs == UNION {[1..n -> Chars] : n \in 0..MaxLen}

\* the titles a draft can hold
Titles == UNION {[1..n -> Chars] : n \in 0..MaxTitleLen}

Empty == << >>

\* a field that is absent from a payload (title: x || undefined)
Undefined == <<"undefined">>

RECURSIVE TrimStart(_)
TrimStart(s) ==
    IF s # Empty /\ Head(s) = " " THEN TrimStart(Tail(s)) ELSE s

RECURSIVE TrimEnd(_)
TrimEnd(s) ==
    IF s # Empty /\ s[Len(s)] = " " THEN TrimEnd(SubSeq(s, 1, Len(s) - 1)) ELSE s

\* String.prototype.trim
Trim(s) == TrimEnd(TrimStart(s))

\* the title field as it would be without || undefined
TitleField_SendsEmpty(t) == Trim(t)

\* title.trim() || undefined
TitleField(t) == IF Trim(t) = Empty THEN Undefined ELSE Trim(t)

(* --------------------------- identities ------------------------------- *)

\* no identity: useParams gives undefined, the ref starts as null
NoId == "null"
\* the identity in the URL of a session opened on an existing note
UrlId == "note-123"
\* the identities the Notes Service assigns to created notes
NewIds == <<"new-note-1", "new-note-2", "new-note-3">>

(* ------------------------------ errors -------------------------------- *)

NoError == "null"
\* messages an ApiError carries (apiCall)
ApiMessages == {"Something went wrong", "Network error. Please try again."}
ContentRequired == "Note content is required"

(* ------------------------------ state --------------------------------- *)

VARIABLES
    id,                 \* useParams().id
    note,               \* note !== null
    title,
    content,
    loading,
    saving,
    error,
    autoSaveStatus,
    autoSaveTimerRef,   \* id of a timer, 0 for null
    createdNoteIdRef,
    timers,             \* pending setTimeout callbacks
    cleanup,            \* the last run of the auto-save effect returned its cleanup
    inflight,           \* outstanding Notes Service calls
    mounted,            \* the editor is on screen (the session is open)
    createdIds,         \* identities returned by createNote so far
    last                \* the last event, and how it went

\* the backend (notes.controller.js)
VARIABLES
    noteTable,          \* prisma.note: the stored notes by id
    noteSeq,            \* how many notes were ever created (ids are not reused)
    pending,            \* requests that passed findFirst and await their write
    response            \* the last response sent, and for whom

server == <<noteTable, noteSeq, pending, response>>

\* the backend (user.controller.js): the password reset
VARIABLES
    userTable,          \* prisma.user: the registered users by email
    now,                \* new Date(), counted in periods of 15 minutes
    tokenLog,           \* the reset tokens issued: expiry and successful uses
    authPending,        \* requests between two of their awaits
    reply               \* the last response of forgotPassword / resetPassword

auth == <<userTable, now, tokenLog, authPending, reply>>

vars == <<id, note, title, content, loading, saving, error, autoSaveStatus,
          autoSaveTimerRef, createdNoteIdRef, timers, cleanup, inflight,
          mounted, createdIds, last>>

isEditing == id # NoId

\* an event: what happened, whether it went well (a call started, a call
\* succeeded, the user confirmed), the error message, the operation resolved
\* and, for a save call resolved in the open session, whether the draft is
\* no longer the one the call carried
Event(ev, ok, msg, op) ==
    [ev |-> ev, ok |-> ok, msg |-> msg, op |-> op, stale |-> FALSE]

Call(op, by, nid, t, c) == [op |-> op, by |-> by, id |-> nid, title |-> t, content |-> c]

SaveOps == {"createNote", "editNote"}

\* the outstanding createNote / editNote calls
SaveCalls(q) == {i \in 1..Len(q) : q[i].op \in SaveOps}

DeleteCalls(q) == {i \in 1..Len(q) : q[i].op = "deleteNote"}

Remove(q, i) == SubSeq(q, 1, i - 1) \o SubSeq(q, i + 1, Len(q))


(* ------------------------------ timers -------------------------------- *)

\* clearTimeout(tid): the pending timer with that id, if there is one, is dropped
ClearTimeout(ts, tid) == {x \in ts : x.tid # tid}

\* setTimeout returns an id no pending timer has.  The id of a timer that
\* expired or was cleared names no timer any more, and the ref that may
\* still hold it is overwritten with every id setTimeout returns, so the
\* least free id stands for the fresh one
NewTimerId(ts) ==
    CHOOSE n \in 1..(MaxTimers + 1) :
        /\ \A x \in ts : x.tid # n
        /\ \A m \in 1..(n - 1) : \E x \in ts : x.tid = m

\* the cleanup as it would be if the effect returned none
RunCleanup_Never(ts) == ts

\* the cleanup of the previous run of the auto-save effect, when that run
\* returned one: if (autoSaveTimerRef.current) clearTimeout(...)
RunCleanup(ts) == IF cleanup THEN ClearTimeout(ts, autoSaveTimerRef) ELSE ts

\* the effect as it would be without clearing the timer it supersedes
AutoSaveEffect_KeepsOldTimer(t, c) ==
    IF (t = Empty /\ c = Empty) \/ saving
    THEN /\ cleanup' = FALSE
         /\ UNCHANGED <<timers, autoSaveTimerRef, autoSaveStatus>>
    ELSE LET tid == NewTimerId(timers)
         IN  /\ Cardinality(timers) < MaxTimers
             /\ timers' = timers \cup
                    {[tid |-> tid, title |-> t, content |-> c,
                      saving |-> saving, autoSaveStatus |-> autoSaveStatus]}
             /\ autoSaveTimerRef' = tid
             /\ autoSaveStatus' = "unsaved"
             /\ cleanup' = TRUE

\* the effect as it would be without its check of saving
AutoSaveEffect_IgnoresSaving(t, c) ==
    IF t = Empty /\ c = Empty
    THEN /\ timers' = RunCleanup(timers)
         /\ cleanup' = FALSE
         /\ UNCHANGED <<autoSaveTimerRef, autoSaveStatus>>
    ELSE LET cleared == ClearTimeout(RunCleanup(timers), autoSaveTimerRef)
             tid == NewTimerId(cleared)
         IN  /\ Cardinality(cleared) < MaxTimers
             /\ timers' = cleared \cup
                    {[tid |-> tid, title |-> t, content |-> c,
                      saving |-> saving, autoSaveStatus |-> autoSaveStatus]}
             /\ autoSaveTimerRef' = tid
             /\ autoSaveStatus' = "unsaved"
             /\ cleanup' = TRUE

\* useEffect(..., [title, content]) running in a render whose title and
\* content are t and c; saving and autoSaveStatus are those of that render
AutoSaveEffect(t, c) ==
    IF (t = Empty /\ c = Empty) \/ saving
    THEN /\ timers' = RunCleanup(timers)
         /\ cleanup' = FALSE
         /\ UNCHANGED <<autoSaveTimerRef, autoSaveStatus>>
    ELSE LET cleared == ClearTimeout(RunCleanup(timers), autoSaveTimerRef)
             tid == NewTimerId(cleared)
         IN  /\ Cardinality(cleared) < MaxTimers
             /\ timers' = cleared \cup
                    {[tid |-> tid, title |-> t, content |-> c,
                      saving |-> saving, autoSaveStatus |-> autoSaveStatus]}
             /\ autoSaveTimerRef' = tid
             /\ autoSaveStatus' = "unsaved"
             /\ cleanup' = TRUE

\* the unmount as it would be if the effect returned no cleanup
Unmount_NoCleanup ==
    /\ mounted' = FALSE
    /\ cleanup' = FALSE
    /\ UNCHANGED timers

\* the component leaves the screen: the effect's cleanup runs
Unmount ==
    /\ mounted' = FALSE
    /\ timers' = RunCleanup(timers)
    /\ cleanup' = FALSE

(* --------------------------- Notes Service ---------------------------- *)

\* the identity as it would be read without the created-note ref
NoteIdToUse_UrlOnly == id

\* createdNoteIdRef.current || id
NoteIdToUse == IF createdNoteIdRef # NoId THEN createdNoteIdRef ELSE id

\* the call a save makes for the draft (t, c): edit when an identity is
\* known, create otherwise
SaveCall(by, t, c) ==
    IF NoteIdToUse # NoId
    THEN Call("editNote", by, NoteIdToUse, TitleField(t), Trim(c))
    ELSE Call("createNote", by, NoId, TitleField(t), Trim(c))

\* call c carries the draft as it is now
Carries(c) == c.title = TitleField(title) /\ c.content = Trim(content)

\* room for one more outstanding call
CanCall(c) ==
    /\ Len(inflight) < MaxInFlight
    /\ c.op = "createNote" =>
         Cardinality(createdIds)
           + Cardinality({i \in 1..Len(inflight) : inflight[i].op = "createNote"})
           < MaxCreated

\* the identity the Notes Service gives the next created note
NewId == NewIds[Cardinality(createdIds) + 1]

\* error.message || fallback
OrElse(m, d) == IF m = "" THEN d ELSE m

\* what the Notes Service remembers of a resolved call
Served(c, ok) ==
    IF ok /\ c.op = "createNote" THEN createdIds \cup {NewId} ELSE createdIds

(* ------------------------- draft mutations ---------------------------- *)

\* the title input's onChange
SetTitle(t) ==
    /\ mounted /\ ~loading
    /\ t # title
    /\ title' = t
    /\ AutoSaveEffect(t, content)
    /\ UNCHANGED <<server, auth>>
    /\ last' = Event("mutate", TRUE, "", "")
    /\ UNCHANGED <<id, note, content, loading, saving, error, createdNoteIdRef,
                   inflight, mounted, createdIds>>

\* the RichTextEditor's onChange
SetContent(c) ==
    /\ mounted /\ ~loading
    /\ c # content
    /\ content' = c
    /\ AutoSaveEffect(title, c)
    /\ UNCHANGED <<server, auth>>
    /\ last' = Event("mutate", TRUE, "", "")
    /\ UNCHANGED <<id, note, title, loading, saving, error, createdNoteIdRef,
                   inflight, mounted, createdIds>>

(* ---------------------------- auto-save ------------------------------- *)

\* handleAutoSave as it would be if it tested the content without trimming it
HandleAutoSave_NoTrim(t) ==
    IF t.content = Empty
    THEN UNCHANGED <<autoSaveStatus, saving, inflight>>
    ELSE IF t.saving \/ t.autoSaveStatus = "saving"
    THEN UNCHANGED <<autoSaveStatus, saving, inflight>>
    ELSE LET c == SaveCall("handleAutoSave", t.title, t.content)
         IN  /\ CanCall(c)
             /\ inflight' = Append(inflight, c)
             /\ IF mounted
                THEN autoSaveStatus' = "saving" /\ saving' = TRUE
                ELSE UNCHANGED <<autoSaveStatus, saving>>

\* handleAutoSave as the render that armed timer t defined it, up to its await
HandleAutoSave(t) ==
    IF Trim(t.content) = Empty
    THEN UNCHANGED <<autoSaveStatus, saving, inflight>>
    ELSE IF t.saving \/ t.autoSaveStatus = "saving"
    THEN UNCHANGED <<autoSaveStatus, saving, inflight>>
    ELSE LET c == SaveCall("handleAutoSave", t.title, t.content)
         IN  /\ CanCall(c)
             /\ inflight' = Append(inflight, c)
             /\ IF mounted
                THEN autoSaveStatus' = "saving" /\ saving' = TRUE
                ELSE UNCHANGED <<autoSaveStatus, saving>>

\* the expiry as it would be with setInterval in place of setTimeout: the
\* timer stays pending
TimerFired_Interval ==
    \E t \in timers :
        /\ timers' = timers
        /\ HandleAutoSave(t)
        /\ UNCHANGED <<server, auth>>
        /\ last' = Event("timerFired", Len(inflight') > Len(inflight), "", "")
        /\ UNCHANGED <<id, note, title, content, loading, error, autoSaveTimerRef,
                       createdNoteIdRef, cleanup, mounted, createdIds>>

\* a debounce timer expires
TimerFired ==
    \E t \in timers :
        /\ timers' = timers \ {t}
        /\ HandleAutoSave(t)
        /\ UNCHANGED <<server, auth>>
        /\ last' = Event("timerFired", Len(inflight') > Len(inflight), "", "")
        /\ UNCHANGED <<id, note, title, content, loading, error, autoSaveTimerRef,
                       createdNoteIdRef, cleanup, mounted, createdIds>>

\* handleAutoSave as it would be if it recorded an identity whatever the
\* outcome of the call
HandleAutoSaveResolved_RecordsOnFailure(i, ok, msg) ==
    /\ createdNoteIdRef' =
          IF inflight[i].op = "createNote" THEN NewId ELSE createdNoteIdRef
    /\ IF mounted
       THEN /\ autoSaveStatus' = IF ok THEN "saved" ELSE "unsaved"
            /\ saving' = FALSE
       ELSE UNCHANGED <<autoSaveStatus, saving>>
    /\ UNCHANGED error

\* handleAutoSave as it would be if it released the guard after the call
\* inside try instead of in finally
HandleAutoSaveResolved_NoFinally(i, ok, msg) ==
    /\ createdNoteIdRef' =
          IF ok /\ inflight[i].op = "createNote" THEN NewId ELSE createdNoteIdRef
    /\ IF mounted
       THEN /\ autoSaveStatus' = IF ok THEN "saved" ELSE "unsaved"
            /\ saving' = IF ok THEN FALSE ELSE saving
       ELSE UNCHANGED <<autoSaveStatus, saving>>
    /\ UNCHANGED error

\* handleAutoSave as it would be if its catch block reset the recorded
\* identity
HandleAutoSaveResolved_ForgetsOnFailure(i, ok, msg) ==
    /\ createdNoteIdRef' =
          IF ok
          THEN IF inflight[i].op = "createNote" THEN NewId ELSE createdNoteIdRef
          ELSE NoId
    /\ IF mounted
       THEN /\ autoSaveStatus' = IF ok THEN "saved" ELSE "unsaved"
            /\ saving' = FALSE
       ELSE UNCHANGED <<autoSaveStatus, saving>>
    /\ UNCHANGED error

\* handleAutoSave after its await: call i resolved, with success (ok) or
\* with an error carrying msg
HandleAutoSaveResolved(i, ok, msg) ==
    /\ createdNoteIdRef' =
          IF ok /\ inflight[i].op = "createNote" THEN NewId ELSE createdNoteIdRef
    /\ IF mounted
       THEN /\ autoSaveStatus' = IF ok THEN "saved" ELSE "unsaved"
            /\ saving' = FALSE
       ELSE UNCHANGED <<autoSaveStatus, saving>>
    /\ UNCHANGED error

\* the resolution as it would be if the catch block of handleAutoSave
\* armed a timer to try again
AutoSaveResolved_Retries ==
    \E i \in 1..Len(inflight), ok \in BOOLEAN, msg \in ApiMessages :
        /\ inflight[i].by = "handleAutoSave"
        /\ HandleAutoSaveResolved(i, ok, msg)
        /\ inflight' = Remove(inflight, i)
        /\ createdIds' = Served(inflight[i], ok)
        /\ IF ok \/ ~mounted
           THEN UNCHANGED <<timers, autoSaveTimerRef>>
           ELSE /\ Cardinality(timers) < MaxTimers
                /\ timers' = timers \cup
                      {[tid |-> NewTimerId(timers), title |-> title,
                        content |-> content, saving |-> FALSE,
                        autoSaveStatus |-> "unsaved"]}
                /\ autoSaveTimerRef' = NewTimerId(timers)
        /\ UNCHANGED <<server, auth>>
        /\ last' = [Event("autoResolved", ok, IF ok THEN "" ELSE msg, inflight[i].op)
                      EXCEPT !.ev = IF mounted THEN @ ELSE "lateResolved",
                             !.stale = mounted /\ ~Carries(inflight[i])]
        /\ UNCHANGED <<id, note, title, content, loading, cleanup, mounted>>

\* the promise handleAutoSave awaits settles
AutoSaveResolved ==
    \E i \in 1..Len(inflight), ok \in BOOLEAN, msg \in ApiMessages :
        /\ inflight[i].by = "handleAutoSave"
        /\ HandleAutoSaveResolved(i, ok, msg)
        /\ inflight' = Remove(inflight, i)
        /\ createdIds' = Served(inflight[i], ok)
        /\ UNCHANGED <<server, auth>>
        /\ last' = [Event("autoResolved", ok, IF ok THEN "" ELSE msg, inflight[i].op)
                      EXCEPT !.ev = IF mounted THEN @ ELSE "lateResolved",
                             !.stale = mounted /\ ~Carries(inflight[i])]
        /\ UNCHANGED <<id, note, title, content, loading, autoSaveTimerRef,
                       timers, cleanup, mounted>>


(* ---------------------------- manual save ----------------------------- *)

\* the Save control as it would be if only blank content disabled it
canSave_IgnoresSaving == Trim(content) # Empty

\* the Save control is enabled: disabled={saving || !content.trim()}
canSave == ~(saving \/ Trim(content) = Empty)

\* handleSave as it would be without cancelling the pending auto-save
HandleSave_KeepsTimer ==
    IF Trim(content) = Empty
    THEN /\ error' = ContentRequired
         /\ UNCHANGED <<timers, autoSaveTimerRef, saving, autoSaveStatus, inflight>>
    ELSE LET c == SaveCall("handleSave", title, content)
         IN  /\ CanCall(c)
             /\ saving' = TRUE
             /\ autoSaveStatus' = "saving"
             /\ error' = NoError
             /\ inflight' = Append(inflight, c)
             /\ UNCHANGED <<timers, autoSaveTimerRef>>

\* handleSave as it would be if it cancelled the pending auto-save before
\* validating the content
HandleSave_CancelsFirst ==
    /\ timers' = IF autoSaveTimerRef # 0
                 THEN ClearTimeout(timers, autoSaveTimerRef) ELSE timers
    /\ autoSaveTimerRef' = 0
    /\ IF Trim(content) = Empty
       THEN /\ error' = ContentRequired
            /\ UNCHANGED <<saving, autoSaveStatus, inflight>>
       ELSE LET c == SaveCall("handleSave", title, content)
            IN  /\ CanCall(c)
                /\ saving' = TRUE
                /\ autoSaveStatus' = "saving"
                /\ error' = NoError
                /\ inflight' = Append(inflight, c)

\* handleSave as it would be if it forgot the timer's id without clearing
\* the timer
HandleSave_ClearsRefOnly ==
    IF Trim(content) = Empty
    THEN /\ error' = ContentRequired
         /\ UNCHANGED <<timers, autoSaveTimerRef, saving, autoSaveStatus, inflight>>
    ELSE LET c == SaveCall("handleSave", title, content)
         IN  /\ CanCall(c)
             /\ timers' = timers
             /\ autoSaveTimerRef' = 0
             /\ saving' = TRUE
             /\ autoSaveStatus' = "saving"
             /\ error' = NoError
             /\ inflight' = Append(inflight, c)

\* handleSave up to its await
HandleSave ==
    IF Trim(content) = Empty
    THEN /\ error' = ContentRequired
         /\ UNCHANGED <<timers, autoSaveTimerRef, saving, autoSaveStatus, inflight>>
    ELSE LET c == SaveCall("handleSave", title, content)
         IN  /\ CanCall(c)
             /\ timers' = IF autoSaveTimerRef # 0
                          THEN ClearTimeout(timers, autoSaveTimerRef) ELSE timers
             /\ autoSaveTimerRef' = 0
             /\ saving' = TRUE
             /\ autoSaveStatus' = "saving"
             /\ error' = NoError
             /\ inflight' = Append(inflight, c)

\* the user presses the enabled Save control; the event tells whether a
\* pending timer was cancelled
ManualSave ==
    /\ mounted /\ canSave
    /\ HandleSave
    /\ UNCHANGED <<server, auth>>
    /\ last' = Event("save", Len(inflight') > Len(inflight), "",
                     IF timers' # timers THEN "clearTimeout" ELSE "")
    /\ UNCHANGED <<id, note, title, content, loading, createdNoteIdRef, cleanup,
                   mounted, createdIds>>

\* handleSave runs although the trimmed content is empty (the control bypassed)
SaveEmpty ==
    /\ mounted /\ Trim(content) = Empty
    /\ HandleSave
    /\ UNCHANGED <<server, auth>>
    /\ last' = Event("save", Len(inflight') > Len(inflight), "", "")
    /\ UNCHANGED <<id, note, title, content, loading, createdNoteIdRef, cleanup,
                   mounted, createdIds>>

\* handleSave as it would be if navigate were in its finally block
HandleSaveResolved_AlwaysNavigates(i, ok, msg) ==
    IF mounted
    THEN /\ Unmount
         /\ error' = IF ok THEN error ELSE OrElse(msg, "Failed to save note")
         /\ saving' = FALSE
         /\ autoSaveStatus' = "saved"
    ELSE UNCHANGED <<mounted, timers, cleanup, error, saving, autoSaveStatus>>

\* handleSave after its await: navigate on success, setError on failure,
\* then the finally block
HandleSaveResolved(i, ok, msg) ==
    IF mounted
    THEN /\ IF ok
            THEN Unmount /\ UNCHANGED error
            ELSE /\ error' = OrElse(msg, "Failed to save note")
                 /\ UNCHANGED <<mounted, timers, cleanup>>
         /\ saving' = FALSE
         /\ autoSaveStatus' = "saved"
    ELSE UNCHANGED <<mounted, timers, cleanup, error, saving, autoSaveStatus>>

ManualSaveResolved ==
    \E i \in 1..Len(inflight), ok \in BOOLEAN, msg \in ApiMessages :
        /\ inflight[i].by = "handleSave"
        /\ HandleSaveResolved(i, ok, msg)
        /\ inflight' = Remove(inflight, i)
        /\ createdIds' = Served(inflight[i], ok)
        /\ UNCHANGED <<server, auth>>
        /\ last' = [Event("manualResolved", ok, IF ok THEN "" ELSE msg, inflight[i].op)
                      EXCEPT !.ev = IF mounted THEN @ ELSE "lateResolved",
                             !.stale = mounted /\ ~Carries(inflight[i])]
        /\ UNCHANGED <<id, note, title, content, loading, autoSaveTimerRef,
                       createdNoteIdRef>>

(* ------------------------------ delete -------------------------------- *)

\* handleDelete as it would be if it did not ask for confirmation
HandleDelete_NoConfirm(confirm) ==
    IF ~isEditing \/ id = NoId
    THEN UNCHANGED <<loading, inflight>>
    ELSE /\ Len(inflight) < MaxInFlight
         /\ loading' = TRUE
         /\ inflight' = Append(inflight,
                               Call("deleteNote", "handleDelete", id, Undefined, Undefined))

\* handleDelete up to its await; confirm is the answer window.confirm gives
HandleDelete(confirm) ==
    IF ~isEditing \/ id = NoId
    THEN UNCHANGED <<loading, inflight>>
    ELSE IF confirm
    THEN /\ Len(inflight) < MaxInFlight
         /\ loading' = TRUE
         /\ inflight' = Append(inflight,
                               Call("deleteNote", "handleDelete", id, Undefined, Undefined))
    ELSE UNCHANGED <<loading, inflight>>

\* the footer with the Delete Note control is rendered: isEditing && note
deleteShown == isEditing /\ note

\* the user presses Delete Note, rendered inside the editor (not while
\* loading) when the footer is shown
Delete ==
    \E confirm \in BOOLEAN :
        /\ mounted /\ deleteShown /\ ~loading
        /\ HandleDelete(confirm)
        /\ UNCHANGED <<server, auth>>
        /\ last' = Event("delete", confirm, "", "")
        /\ UNCHANGED <<id, note, title, content, saving, error, autoSaveStatus,
                       autoSaveTimerRef, createdNoteIdRef, timers, cleanup,
                       mounted, createdIds>>

\* handleDelete after its await
HandleDeleteResolved(i, ok, msg) ==
    IF mounted
    THEN /\ IF ok
            THEN Unmount /\ UNCHANGED error
            ELSE /\ error' = OrElse(msg, "Failed to delete note")
                 /\ UNCHANGED <<mounted, timers, cleanup>>
         /\ loading' = FALSE
    ELSE UNCHANGED <<mounted, timers, cleanup, error, loading>>

DeleteResolved ==
    \E i \in 1..Len(inflight), ok \in BOOLEAN, msg \in ApiMessages :
        /\ inflight[i].by = "handleDelete"
        /\ HandleDeleteResolved(i, ok, msg)
        /\ inflight' = Remove(inflight, i)
        /\ UNCHANGED <<server, auth>>
        /\ last' = [Event("deleteResolved", ok, IF ok THEN "" ELSE msg, inflight[i].op)
                      EXCEPT !.ev = IF mounted THEN @ ELSE "lateResolved"]
        /\ UNCHANGED <<id, note, title, content, saving, autoSaveStatus,
                       autoSaveTimerRef, createdNoteIdRef, createdIds>>

(* ------------------------------- fetch -------------------------------- *)

\* fetchNote after its await: on success the note's title (t) and content
\* (c) become the draft, and the auto-save effect sees them change
FetchNoteResolved(i, ok, msg, t, c) ==
    IF mounted
    THEN /\ IF ok
            THEN /\ note' = TRUE
                 /\ title' = t
                 /\ content' = c
                 /\ IF t # title \/ c # content
                    THEN AutoSaveEffect(t, c)
                    ELSE UNCHANGED <<timers, cleanup, autoSaveTimerRef, autoSaveStatus>>
                 /\ UNCHANGED error
            ELSE /\ error' = OrElse(msg, "Failed to fetch note")
                 /\ UNCHANGED <<note, title, content, timers, cleanup,
                                autoSaveTimerRef, autoSaveStatus>>
         /\ loading' = FALSE
    ELSE UNCHANGED <<note, title, content, timers, cleanup, autoSaveTimerRef,
                     autoSaveStatus, error, loading>>

\* response.data of getSingleNote: a stored note has content (createNote
\* of the backend refuses a note without), its title may be missing
NoteData(ok) ==
    IF ok THEN [title : Titles, content : Strs \ {Empty}]
    ELSE {[title |-> Empty, content |-> Empty]}

FetchResolved ==
    \E i \in 1..Len(inflight), ok \in BOOLEAN, msg \in ApiMessages :
      \E data \in NoteData(ok) :
        /\ inflight[i].by = "fetchNote"
        /\ FetchNoteResolved(i, ok, msg, data.title, data.content)
        /\ inflight' = Remove(inflight, i)
        /\ UNCHANGED <<server, auth>>
        /\ last' = [Event("fetchResolved", ok, IF ok THEN "" ELSE msg, inflight[i].op)
                      EXCEPT !.ev = IF mounted THEN @ ELSE "lateResolved"]
        /\ UNCHANGED <<id, saving, createdNoteIdRef, mounted, createdIds>>

(* ------------------------------ cancel -------------------------------- *)

\* the Cancel control: navigate('/dashboard'); the event tells whether no
\* timer had to be cancelled
Cancel ==
    /\ mounted
    /\ Unmount
    /\ UNCHANGED <<server, auth>>
    /\ last' = Event("cancel", timers' = timers, "", "")
    /\ UNCHANGED <<id, note, title, content, loading, saving, error,
                   autoSaveStatus, autoSaveTimerRef, createdNoteIdRef, inflight,
                   createdIds>>

(* ------------------------------ backend ------------------------------ *)

\* the authenticated users (req.user.id)
Users == {"user-1", "user-2"}

\* titles and contents a request body carries
Texts == {"", "x"}

\* a response: the handler, the user it answers, the note id named, the
\* HTTP status, and whether the request named a note of another user
Response(op, u, nid, status, foreign) ==
    [op |-> op, user |-> u, id |-> nid, status |-> status, foreign |-> foreign]

\* the request names a stored note that belongs to another user
Foreign(nid, u) == nid \in DOMAIN noteTable /\ noteTable[nid].userId # u

\* findFirst as it would be with where: { id } only
OwnedNote_AnyUser(nid, u) == nid \in DOMAIN noteTable

\* prisma.note.findFirst({ where: { id, userId } }) finds a note
OwnedNote(nid, u) == nid \in DOMAIN noteTable /\ noteTable[nid].userId = u

\* the table with one more row
Insert(nid, row) ==
    [n \in DOMAIN noteTable \cup {nid} |-> IF n = nid THEN row ELSE noteTable[n]]

\* the table without row nid
Erase(nid) == [n \in DOMAIN noteTable \ {nid} |-> noteTable[n]]

\* createNote
CreateNote(u, t, c) ==
    /\ noteSeq < MaxNotes
    /\ IF c = ""
       THEN /\ response' = Response("createNote", u, 0, 400, FALSE)
            /\ UNCHANGED <<noteTable, noteSeq>>
       ELSE /\ noteSeq' = noteSeq + 1
            /\ noteTable' = Insert(noteSeq + 1, [userId |-> u, title |-> t, content |-> c])
            /\ response' = Response("createNote", u, noteSeq + 1, 200, FALSE)
    /\ UNCHANGED pending
    /\ UNCHANGED <<vars, auth>>

\* getSingleNote
GetSingleNote(u, nid) ==
    /\ response' = Response("getSingleNote", u, nid,
                            IF OwnedNote(nid, u) THEN 200 ELSE 404, Foreign(nid, u))
    /\ UNCHANGED <<noteTable, noteSeq, pending>>
    /\ UNCHANGED <<vars, auth>>

\* editNote up to its second await: validation and findFirst; nid 0 is a
\* body without id
EditNoteCheck(u, nid, t, c) ==
    /\ IF nid = 0
       THEN /\ response' = Response("editNote", u, nid, 400, FALSE)
            /\ UNCHANGED pending
       ELSE IF ~OwnedNote(nid, u)
       THEN /\ response' = Response("editNote", u, nid, 400, Foreign(nid, u))
            /\ UNCHANGED pending
       ELSE /\ Cardinality(pending) < MaxPending
            /\ pending' = pending \cup
                  {[op |-> "editNote", user |-> u, id |-> nid, title |-> t,
                    content |-> c, foreign |-> Foreign(nid, u)]}
            /\ UNCHANGED response
    /\ UNCHANGED <<noteTable, noteSeq>>
    /\ UNCHANGED <<vars, auth>>

\* editNote from prisma.note.update on: the update rejects when the row is
\* gone, and the error handler answers 500
EditNoteWrite(r) ==
    /\ r.op = "editNote"
    /\ pending' = pending \ {r}
    /\ IF r.id \in DOMAIN noteTable
       THEN /\ noteTable' = [noteTable EXCEPT ![r.id].title = r.title,
                                              ![r.id].content = r.content]
            /\ response' = Response("editNote", r.user, r.id, 200, r.foreign)
       ELSE /\ response' = Response("editNote", r.user, r.id, 500, r.foreign)
            /\ UNCHANGED noteTable
    /\ UNCHANGED noteSeq
    /\ UNCHANGED <<vars, auth>>

\* deleteNote up to its second await: findFirst
DeleteNoteCheck(u, nid) ==
    /\ IF ~OwnedNote(nid, u)
       THEN /\ response' = Response("deleteNote", u, nid, 400, Foreign(nid, u))
            /\ UNCHANGED pending
       ELSE /\ Cardinality(pending) < MaxPending
            /\ pending' = pending \cup
                  {[op |-> "deleteNote", user |-> u, id |-> nid, title |-> "",
                    content |-> "", foreign |-> Foreign(nid, u)]}
            /\ UNCHANGED response
    /\ UNCHANGED <<noteTable, noteSeq>>
    /\ UNCHANGED <<vars, auth>>

\* deleteNote from prisma.note.delete on: the delete rejects when the row
\* is gone, and the error handler answers 500
DeleteNoteWrite(r) ==
    /\ r.op = "deleteNote"
    /\ pending' = pending \ {r}
    /\ IF r.id \in DOMAIN noteTable
       THEN /\ noteTable' = Erase(r.id)
            /\ response' = Response("deleteNote", r.user, r.id, 200, r.foreign)
       ELSE /\ response' = Response("deleteNote", r.user, r.id, 500, r.foreign)
            /\ UNCHANGED noteTable
    /\ UNCHANGED noteSeq
    /\ UNCHANGED <<vars, auth>>

(* ------------------------ backend: password reset -------------------- *)

\* the emails a request can carry; only the first belongs to a user
Emails == {"ann@example.com", "bob@example.com"}
Registered == {"ann@example.com"}

\* the passwords a reset request can carry; "" is a missing field
NewPasswords == {"", "pw-1", "pw-2"}

\* a column holding null
Null == <<"null">>

\* crypto.createHash('sha256').update(token).digest('hex')
Sha256(k) == <<"sha256", k>>

\* bcryptjs.hash(password, 10)
Bcrypt(p) == <<"bcrypt", p>>

ResetLinkSent == "If the email exists, a reset link has been sent"
SendFailed == "Failed to send reset email. Please try again."
TokenRequired == "Token and new password are required"
InvalidToken == "Invalid or expired reset token"
ResetDone == "Password reset successfully"

\* a response: the handler, the HTTP status and message, the token the
\* request carried (0 for none), whether that token had already reset a
\* password or had expired when the request arrived
Reply(op, status, message, k, late) ==
    [op |-> op, status |-> status, message |-> message, token |-> k, late |-> late]

\* token k had been used or had expired when the request carrying it arrived
Late(k) ==
    /\ k \in 1..Len(tokenLog)
    /\ (tokenLog[k].uses > 0 \/ now >= tokenLog[k].expiry)

\* prisma.user.findFirst({ where: { resetPasswordToken, resetPasswordExpiry:
\* { gt: new Date() } } }): the users found
TokenOwners(h) ==
    {e \in Registered :
        /\ userTable[e].resetPasswordToken = h
        /\ userTable[e].resetPasswordExpiry > now}

\* forgotPassword up to sendEmail: findUnique, and for a user the fresh
\* token's hash and its expiry are stored
ForgotPasswordStore(email) ==
    /\ IF email \notin Registered
       THEN /\ reply' = Reply("forgotPassword", 200, ResetLinkSent, 0, FALSE)
            /\ UNCHANGED <<userTable, tokenLog, authPending>>
       ELSE LET k == Len(tokenLog) + 1
            IN  /\ Len(tokenLog) < MaxTokens
                /\ Cardinality(authPending) < MaxPending
                /\ tokenLog' = Append(tokenLog, [expiry |-> now + 1, uses |-> 0])
                /\ userTable' = [userTable EXCEPT
                                    ![email].resetPasswordToken = Sha256(k),
                                    ![email].resetPasswordExpiry = now + 1]
                /\ authPending' = authPending \cup
                      {[op |-> "forgotPassword", user |-> email, token |-> k,
                        password |-> ""]}
                /\ UNCHANGED reply
    /\ UNCHANGED now
    /\ UNCHANGED <<vars, server>>

\* forgotPassword from sendEmail on: sent tells whether the email went out;
\* the catch block clears the user's reset fields and throws
ForgotPasswordSend(r, sent) ==
    /\ r.op = "forgotPassword"
    /\ authPending' = authPending \ {r}
    /\ IF sent
       THEN /\ reply' = Reply("forgotPassword", 200, ResetLinkSent, 0, FALSE)
            /\ UNCHANGED userTable
       ELSE /\ userTable' = [userTable EXCEPT
                                ![r.user].resetPasswordToken = Null,
                                ![r.user].resetPasswordExpiry = 0]
            /\ reply' = Reply("forgotPassword", 500, SendFailed, 0, FALSE)
    /\ UNCHANGED <<now, tokenLog>>
    /\ UNCHANGED <<vars, server>>

\* resetPassword up to bcryptjs.hash: the validation and findFirst; token 0
\* is a body without token
ResetPasswordCheck(k, p) ==
    /\ IF k = 0 \/ p = ""
       THEN /\ reply' = Reply("resetPassword", 400, TokenRequired, k, Late(k))
            /\ UNCHANGED authPending
       ELSE IF TokenOwners(Sha256(k)) = {}
       THEN /\ reply' = Reply("resetPassword", 400, InvalidToken, k, Late(k))
            /\ UNCHANGED authPending
       ELSE /\ Cardinality(authPending) < MaxPending
            /\ authPending' = authPending \cup
                  {[op |-> "resetPassword",
                    user |-> CHOOSE e \in TokenOwners(Sha256(k)) : TRUE,
                    token |-> k, password |-> p]}
            /\ UNCHANGED reply
    /\ UNCHANGED <<userTable, now, tokenLog>>
    /\ UNCHANGED <<vars, server>>

\* resetPassword from prisma.user.update on: the password is replaced and
\* the reset fields are cleared, for the user findFirst gave
ResetPasswordWrite(r) ==
    /\ r.op = "resetPassword"
    /\ authPending' = authPending \ {r}
    /\ userTable' = [userTable EXCEPT
                        ![r.user].password = Bcrypt(r.password),
                        ![r.user].resetPasswordToken = Null,
                        ![r.user].resetPasswordExpiry = 0]
    /\ tokenLog' = [tokenLog EXCEPT ![r.token].uses = @ + 1]
    /\ reply' = Reply("resetPassword", 200, ResetDone, r.token, FALSE)
    /\ UNCHANGED now
    /\ UNCHANGED <<vars, server>>

\* time passes
Tick ==
    /\ now < MaxTime
    /\ now' = now + 1
    /\ UNCHANGED <<userTable, tokenLog, authPending, reply>>
    /\ UNCHANGED <<vars, server>>

(* --------------------------- specification ---------------------------- *)

\* the session after the first render and its mount effects: a session
\* opened on an existing note has called fetchNote
Init ==
    /\ id \in {NoId, UrlId}
    /\ note = FALSE
    /\ title = Empty
    /\ content = Empty
    /\ loading = (id # NoId)
    /\ saving = FALSE
    /\ error = NoError
    /\ autoSaveStatus = "saved"
    /\ autoSaveTimerRef = 0
    /\ createdNoteIdRef = NoId
    /\ timers = {}
    /\ cleanup = FALSE
    /\ inflight = IF id # NoId
                  THEN <<Call("getSingleNote", "fetchNote", id, Undefined, Undefined)>>
                  ELSE << >>
    /\ mounted = TRUE
    /\ createdIds = {}
    /\ last = Event("init", TRUE, "", "")
    /\ noteTable = << >>
    /\ noteSeq = 0
    /\ pending = {}
    /\ response = Response("none", "none", 0, 200, FALSE)
    /\ userTable = [e \in Registered |->
                      [password |-> Bcrypt("pw-0"), resetPasswordToken |-> Null,
                       resetPasswordExpiry |-> 0]]
    /\ now = 0
    /\ tokenLog = << >>
    /\ authPending = {}
    /\ reply = Reply("none", 200, "", 0, FALSE)

Next ==
    \/ \E t \in Titles : SetTitle(t)
    \/ \E c \in Strs : SetContent(c)
    \/ TimerFired
    \/ AutoSaveResolved
    \/ ManualSave
    \/ SaveEmpty
    \/ ManualSaveResolved
    \/ Delete
    \/ DeleteResolved
    \/ FetchResolved
    \/ Cancel

Spec == Init /\ [][Next]_vars

\* every outstanding save call is eventually answered, with success or with
\* failure: the promise a handler awaits settles
FairSpec ==
    /\ Spec
    /\ WF_vars(AutoSaveResolved)
    /\ WF_vars(ManualSaveResolved)

\* every pending debounce timer expires and every outstanding save call is
\* answered
LiveSpec ==
    /\ Spec
    /\ WF_vars(TimerFired)
    /\ WF_vars(AutoSaveResolved)
    /\ WF_vars(ManualSaveResolved)

\* the backend serving any sequence of authenticated requests
ServerNext ==
    \/ \E u \in Users, t \in Texts, c \in Texts : CreateNote(u, t, c)
    \/ \E u \in Users, nid \in 1..MaxNotes : GetSingleNote(u, nid)
    \/ \E u \in Users, nid \in 0..MaxNotes, t \in Texts, c \in Texts :
          EditNoteCheck(u, nid, t, c)
    \/ \E r \in pending : EditNoteWrite(r)
    \/ \E u \in Users, nid \in 1..MaxNotes : DeleteNoteCheck(u, nid)
    \/ \E r \in pending : DeleteNoteWrite(r)

\* the backend starts with no notes; the editor page plays no part
ServerInit == Init /\ id = NoId

ServerSpec == ServerInit /\ [][ServerNext]_server

\* the backend serving any sequence of password-reset requests
AuthNext ==
    \/ \E email \in Emails : ForgotPasswordStore(email)
    \/ \E r \in authPending, sent \in BOOLEAN : ForgotPasswordSend(r, sent)
    \/ \E k \in 0..MaxTokens, p \in NewPasswords : ResetPasswordCheck(k, p)
    \/ \E r \in authPending : ResetPasswordWrite(r)
    \/ Tick

\* the backend starts with its users and no reset token
AuthInit == Init /\ id = NoId

AuthSpec == AuthInit /\ [][AuthNext]_auth

TypeOK ==
    /\ id \in {NoId, UrlId}
    /\ note \in BOOLEAN /\ loading \in BOOLEAN /\ saving \in BOOLEAN
    /\ title \in Titles /\ content \in Strs
    /\ autoSaveStatus \in {"saved", "saving", "unsaved"}
    /\ cleanup \in BOOLEAN /\ mounted \in BOOLEAN
    /\ Len(inflight) <= MaxInFlight


(* ------------------------------ claims -------------------------------- *)

\* the newest outstanding call
Newest == inflight[Len(inflight)]

\* C1: at most one createNote/editNote call is outstanding at any time,
\* whatever the interleaving of draft mutations, timer expiries and presses
\* of the enabled Save control.
C1_AtMostOneSaveInFlight == Cardinality(SaveCalls(inflight)) <= 1

\* C1 witness: the draft is changed while a save call is outstanding.
C1_Witness ==
    /\ Cardinality(SaveCalls(inflight)) = 1
    /\ last.ev = "mutate"
    /\ saving

\* C2: in a session that starts with no identity, createNote succeeds at
\* most once, and every save call outstanding after it succeeded is an
\* editNote carrying the identity it returned.
C2_SingleCreate ==
    id = NoId =>
        /\ Cardinality(createdIds) <= 1
        /\ createdIds # {} =>
             \A i \in SaveCalls(inflight) :
                 inflight[i].op = "editNote" /\ inflight[i].id \in createdIds

\* C2 witness: after the create succeeded, a later save is an editNote.
C2_Witness ==
    /\ id = NoId
    /\ createdIds # {}
    /\ \E i \in SaveCalls(inflight) :
           inflight[i].op = "editNote" /\ inflight[i].id \in createdIds

\* C3 as stated: when a save call resolves in an open session, on either
\* path, the status is Saved after a success and Unsaved after a failure.
C3_StatusAfterResolution ==
    last.ev \in {"autoResolved", "manualResolved"} =>
        autoSaveStatus = IF last.ok THEN "saved" ELSE "unsaved"

C5_SavesCarryContent ==
    /\ \A i \in SaveCalls(inflight) :
           /\ inflight[i].content # Empty
           /\ Trim(inflight[i].content) = inflight[i].content
    /\ (last.ev \in {"timerFired", "save"} /\ Trim(content) = Empty) => ~last.ok

\* C5 witness: the timer of a title-only draft expired and no call started.
C5_Witness ==
    /\ last.ev = "timerFired"
    /\ ~last.ok
    /\ Trim(title) # Empty
    /\ Trim(content) = Empty
    /\ inflight = << >>


\* everything a rejected manual save must leave alone
ExceptError == <<id, note, title, content, loading, saving, autoSaveStatus,
                 autoSaveTimerRef, createdNoteIdRef, timers, cleanup, inflight,
                 mounted, createdIds>>

\* C6: a manual save triggered while the trimmed content is empty sets the
\* validation error and changes nothing else: no call starts, the status,
\* the saving guard and the pending timer stay as they were.
C6_EmptySaveRejected ==
    [][(last'.ev = "save" /\ Trim(content) = Empty) =>
          (error' = ContentRequired /\ UNCHANGED ExceptError)]_vars

\* C6 witness: a manual save was rejected while a debounce timer was
\* pending, and the timer is still pending.
C6_Witness ==
    /\ last.ev = "save"
    /\ ~last.ok
    /\ error = ContentRequired
    /\ timers # {}
    /\ autoSaveStatus = "unsaved"

\* everything a declined delete must leave alone
ExceptLast == <<id, note, title, content, loading, saving, error,
                autoSaveStatus, autoSaveTimerRef, createdNoteIdRef, timers,
                cleanup, inflight, mounted, createdIds>>

\* C7: a deleteNote call starts only in a delete action whose confirm
\* returned true; when confirm returns false no call starts, nothing
\* navigates and the session stays open.
C7_DeleteNeedsConfirm ==
    [][/\ Cardinality(DeleteCalls(inflight')) > Cardinality(DeleteCalls(inflight)) =>
            (last'.ev = "delete" /\ last'.ok)
       /\ (last'.ev = "delete" /\ ~last'.ok) =>
            (mounted' /\ UNCHANGED ExceptLast)]_vars

\* C7 witness: the user declined the confirmation; no deleteNote call is
\* outstanding and the session is open.
C7_Witness ==
    /\ last.ev = "delete"
    /\ ~last.ok
    /\ mounted
    /\ DeleteCalls(inflight) = {}

\* C8 as stated: when an auto-save fails in an open session the error value
\* holds the failure's message and the status is Unsaved.
C8_AutoSaveFailureSurfaced ==
    (last.ev = "autoResolved" /\ ~last.ok) =>
        (error = last.msg /\ autoSaveStatus = "unsaved")

\* C9: a failed createNote records no identity, so the next save decides
\* for createNote again; as long as no createNote has succeeded no identity
\* is recorded and every save call is a createNote; the recorded identity
\* changes only when a createNote succeeds, to the identity it returned.
C9_FailedCreateRetried ==
    /\ [](/\ (last.ev \in {"autoResolved", "manualResolved"}
              /\ last.op = "createNote" /\ ~last.ok) =>
                 (NoteIdToUse = NoId
                  /\ SaveCall("handleAutoSave", title, content).op = "createNote")
          /\ (id = NoId /\ createdIds = {}) =>
                 /\ createdNoteIdRef = NoId
                 /\ \A i \in SaveCalls(inflight) : inflight[i].op = "createNote")
    /\ [][createdNoteIdRef' # createdNoteIdRef =>
             /\ last'.ev \in {"autoResolved", "lateResolved"}
             /\ last'.op = "createNote" /\ last'.ok
             /\ createdNoteIdRef' \in createdIds' \ createdIds]_vars

\* C9 witness: a createNote made by the auto-save failed and no identity
\* is recorded.
C9_Witness ==
    /\ last.ev = "autoResolved"
    /\ last.op = "createNote"
    /\ ~last.ok
    /\ createdNoteIdRef = NoId
    /\ mounted

\* C10: when the call of a manual save or of a confirmed delete resolves,
\* the editor has navigated away exactly if the call succeeded; after a
\* failure the session is open and the error value holds the message.
C10_NavigateIffSucceeded ==
    last.ev \in {"manualResolved", "deleteResolved"} =>
        /\ mounted <=> ~last.ok
        /\ ~last.ok => error = last.msg

\* C10 witness: a manual save failed; the session is open, showing the error.
C10_Witness ==
    /\ last.ev = "manualResolved"
    /\ ~last.ok
    /\ mounted
    /\ error = last.msg
    /\ canSave


\* the fetchNote of a session opened on an existing note resolved without
\* giving a note
FetchFailed ==
    /\ isEditing
    /\ ~note
    /\ \A i \in 1..Len(inflight) : inflight[i].op # "getSingleNote"

\* C11 as stated: once fetchNote has failed at the start of a session no
\* draft is established and no createNote, editNote or deleteNote call is
\* ever issued in that session.
C11_FetchFailureFatal ==
    FetchFailed =>
        /\ title = Empty /\ content = Empty
        /\ SaveCalls(inflight) = {}
        /\ DeleteCalls(inflight) = {}


\* C12: in an open session canSave is false exactly when the trimmed
\* content is empty or a save call is outstanding, and a manual save starts
\* its call only from a state where the content is not blank and no save
\* is in progress.
C12_CanSave ==
    /\ [](mounted =>
            (canSave <=> (Trim(content) # Empty /\ SaveCalls(inflight) = {})))
    /\ [][(last'.ev = "save" /\ last'.ok) =>
             (Trim(content) # Empty /\ ~saving /\ SaveCalls(inflight) = {})]_vars

\* C12 witness: the content is not blank and the Save control is disabled
\* because an auto-save call is outstanding.
C12_Witness ==
    /\ mounted
    /\ Trim(content) # Empty
    /\ ~canSave
    /\ \E i \in SaveCalls(inflight) : inflight[i].by = "handleAutoSave"


\* the identity the session knows: the one a create recorded, else the URL's
KnownIdentity == IF createdNoteIdRef = NoId THEN id ELSE createdNoteIdRef

\* C13: the payload of every save call is a function of the current draft
\* and identity: content is the trimmed content, title is the trimmed title
\* or absent when that is empty, editNote carries the known identity and
\* createNote, made only when none is known, carries none.
C13_Payload ==
    (last.ev \in {"timerFired", "save"} /\ last.ok) =>
        /\ Newest.content = Trim(content)
        /\ Newest.title = IF Trim(title) = Empty THEN Undefined ELSE Trim(title)
        /\ Newest.title # Empty
        /\ IF KnownIdentity = NoId
           THEN Newest.op = "createNote" /\ Newest.id = NoId
           ELSE Newest.op = "editNote" /\ Newest.id = KnownIdentity

\* C13 witness: an editNote for a draft with a blank title and content
\* that trimming changes.
C13_Witness ==
    /\ last.ev = "timerFired"
    /\ last.ok
    /\ Newest.op = "editNote"
    /\ title # Empty
    /\ Newest.title = Undefined
    /\ content # Trim(content)


\* C14: no permanent lockout: when the calls are eventually answered, a
\* set save-in-progress guard of an open session is eventually cleared
\* (or the session is closed).
C14_NoLockout == (mounted /\ saving) ~> (~saving \/ ~mounted)

\* C14 witness: an auto-save failed and the guard is clear again, so the
\* Save control is enabled.
C14_Witness ==
    /\ last.ev = "autoResolved"
    /\ ~last.ok
    /\ mounted
    /\ ~saving
    /\ canSave


\* C15: after the session is torn down no debounce timer is pending, and
\* no createNote/editNote call is started in a closed session.
C15_NoTimerAfterTeardown ==
    /\ [](~mounted => timers = {})
    /\ [][~mounted =>
             Cardinality(SaveCalls(inflight')) <= Cardinality(SaveCalls(inflight))]_vars

\* C15 witness: the user left the editor while a debounce timer was
\* pending; the timer is gone.
C15_Witness ==
    /\ last.ev = "cancel"
    /\ ~last.ok
    /\ ~mounted
    /\ timers = {}
    /\ Trim(content) # Empty


\* C16: user isolation in the backend: no step taken for a user changes or
\* removes a note of another user, and a get, edit or delete request that
\* names a note of another user is never answered with success.
C16_UserIsolation ==
    /\ [][\A n \in DOMAIN noteTable :
             noteTable[n].userId # response'.user =>
                 (n \in DOMAIN noteTable' /\ noteTable'[n] = noteTable[n])]_server
    /\ [](response.foreign => response.status # 200)
    /\ [](\A r \in pending : ~r.foreign)

\* C16 witness: a user's delete request names the note of another user; it
\* is refused and the note is still stored.
C16_Witness ==
    /\ response.op = "deleteNote"
    /\ response.foreign
    /\ response.status = 400
    /\ response.id \in DOMAIN noteTable
    /\ noteTable[response.id].userId # response.user


\* the status goes from a to b in this step
Moves(a, b) == autoSaveStatus = a /\ autoSaveStatus' = b

\* C17 as stated: every change of the status is Saved to Unsaved by a user
\* mutation with no save in flight, Unsaved to Saving by a timer expiry or a
\* manual save with no save in flight, Saving to Saved by a success, or
\* Saving to Unsaved by a failure.
C17_FourTransitions ==
    [][autoSaveStatus' # autoSaveStatus =>
          \/ /\ Moves("saved", "unsaved")
             /\ last'.ev = "mutate"
             /\ SaveCalls(inflight) = {}
          \/ /\ Moves("unsaved", "saving")
             /\ last'.ev \in {"timerFired", "save"}
             /\ SaveCalls(inflight) = {}
          \/ /\ Moves("saving", "saved")
             /\ last'.ev \in {"autoResolved", "manualResolved"}
             /\ last'.ok
          \/ /\ Moves("saving", "unsaved")
             /\ last'.ev \in {"autoResolved", "manualResolved"}
             /\ ~last'.ok]_vars

\* C18: in an open session a createNote/editNote call is outstanding
\* exactly when the status is Saving and exactly when the guard is set; a
\* draft mutation made meanwhile changes neither.
C18_SavingWhileOutstanding ==
    mounted =>
        /\ SaveCalls(inflight) # {} <=> autoSaveStatus = "saving"
        /\ SaveCalls(inflight) # {} <=> saving

\* C18 witness: the draft was changed while a call is outstanding and the
\* status is still Saving.
C18_Witness ==
    /\ mounted
    /\ last.ev = "mutate"
    /\ SaveCalls(inflight) # {}
    /\ autoSaveStatus = "saving"
    /\ timers = {}

\* C19 as stated: the status leaves Saved for Unsaved, and a timer is armed,
\* only by user input; the draft populated by a successful fetchNote leaves
\* the status Saved and no timer pending.
C19_FetchLeavesSaved ==
    /\ [][(Moves("saved", "unsaved") \/ ~(timers' \subseteq timers)) =>
             last'.ev = "mutate"]_vars
    /\ []((last.ev = "fetchResolved" /\ last.ok) =>
             (autoSaveStatus = "saved" /\ timers = {}))

\* C20: a draft mutation that leaves title and content both empty leaves
\* no timer pending and the status as it was.
C20_EmptyDraftArmsNothing ==
    [][(last'.ev = "mutate" /\ title' = Empty /\ content' = Empty) =>
          (timers' = {} /\ autoSaveStatus' = autoSaveStatus)]_vars

\* C20 witness: the draft was emptied again while its timer was pending;
\* the timer is gone and the status is still Unsaved.
C20_Witness ==
    /\ last.ev = "mutate"
    /\ title = Empty /\ content = Empty
    /\ autoSaveTimerRef # 0
    /\ timers = {}
    /\ ~cleanup
    /\ autoSaveStatus = "unsaved"
    /\ inflight = << >>
    /\ createdIds = {}
    /\ ~isEditing


\* the outstanding calls a manual save made
ManualCalls == {i \in SaveCalls(inflight) : inflight[i].by = "handleSave"}

\* C21: a manual save that starts its call leaves no debounce timer pending;
\* none is pending while the call is outstanding nor when it resolved, so
\* no timer expires over a manual save and the timer never submits the
\* draft the manual save submitted.
C21_ManualSaveCancelsTimer ==
    /\ (last.ev = "save" /\ last.ok) => (timers = {} /\ autoSaveTimerRef = 0)
    /\ ManualCalls # {} => timers = {}
    /\ last.ev = "manualResolved" => timers = {}
    /\ last.ev = "timerFired" => ManualCalls = {}

\* C21 witness: the Save control was pressed while a debounce timer was
\* pending; the call is outstanding and the timer is gone.
C21_Witness ==
    /\ last.ev = "save"
    /\ last.ok
    /\ last.op = "clearTimeout"
    /\ ManualCalls # {}
    /\ timers = {}


\* the outstanding getSingleNote calls
FetchCalls(q) == {i \in 1..Len(q) : q[i].op = "getSingleNote"}

\* a createNote/editNote call failed in the open session
SaveFailed ==
    /\ last.ev \in {"autoResolved", "manualResolved"}
    /\ ~last.ok

\* C22: no automatic retry: when a save call failed no timer is pending and
\* no save call is outstanding; a save call starts only at a timer expiry
\* or at a press of the Save control; and once the note was fetched (no
\* fetch is outstanding, and none is ever started again) a timer is armed
\* only by a draft mutation.
C22_NoAutomaticRetry ==
    /\ [](SaveFailed =>
            (timers = {} /\ SaveCalls(inflight) = {} /\ FetchCalls(inflight) = {}))
    /\ [][Cardinality(SaveCalls(inflight')) > Cardinality(SaveCalls(inflight)) =>
             last'.ev \in {"timerFired", "save"}]_vars
    /\ [][Cardinality(FetchCalls(inflight')) <= Cardinality(FetchCalls(inflight))]_vars
    /\ [][(FetchCalls(inflight) = {} /\ ~(timers' \subseteq timers)) =>
             last'.ev = "mutate"]_vars

\* C22 witness: a manual save failed; the session is open with the draft
\* unsaved, no timer is pending and no call is outstanding.
C22_Witness ==
    /\ SaveFailed
    /\ last.ev = "manualResolved"
    /\ mounted
    /\ Trim(content) # Empty
    /\ timers = {}
    /\ inflight = << >>


\* C23: the known identity is single-assignment: once present it never
\* changes and never reverts to absent, and every save call started while
\* it is present is an editNote carrying it.
C23_IdentitySingleAssignment ==
    /\ [][KnownIdentity # NoId => KnownIdentity' = KnownIdentity]_vars
    /\ []((last.ev \in {"timerFired", "save"} /\ last.ok /\ KnownIdentity # NoId) =>
            (Newest.op = "editNote" /\ Newest.id = KnownIdentity))
    /\ [](\A i \in SaveCalls(inflight) :
              inflight[i].op = "editNote" => inflight[i].id = KnownIdentity)

\* C23 witness: in a session that started as a new note an editNote for the
\* identity the create recorded failed, and the identity is still recorded.
C23_Witness ==
    /\ id = NoId
    /\ last.ev = "autoResolved"
    /\ last.op = "editNote"
    /\ ~last.ok
    /\ createdNoteIdRef \in createdIds
    /\ KnownIdentity = createdNoteIdRef


\* C24 as stated: once an identity is known in a session whose editor is
\* on screen, also an identity a create recorded in a session that started
\* as a new note, the delete action is available, and a confirmed delete
\* calls deleteNote with the known identity.
C24_DeleteKnownIdentity ==
    /\ (mounted /\ ~loading /\ ~FetchFailed /\ KnownIdentity # NoId) => deleteShown
    /\ (last.ev = "delete" /\ last.ok) =>
          (Newest.op = "deleteNote" /\ Newest.id = KnownIdentity)


\* C25 as stated: a reset token is single-use and time-limited: whatever
\* the interleaving of the resetPassword requests, no token resets a
\* password more than once, and a request that arrives with a token that
\* was already used or has expired is refused as invalid or expired.
C25_TokenSingleUse ==
    /\ \A k \in 1..Len(tokenLog) : tokenLog[k].uses <= 1
    /\ (reply.op = "resetPassword" /\ reply.late /\ reply.message # TokenRequired) =>
          (reply.status = 400 /\ reply.message = InvalidToken)

\* C26 as stated: forgotPassword answers every request with status 200 and
\* the same message, whether or not the email belongs to a user and
\* whatever the outcome of sending the email.
C26_SameResponse ==
    reply.op = "forgotPassword" =>
        (reply.status = 200 /\ reply.message = ResetLinkSent)


\* the open session shows 'All changes saved' and no save is in progress
ShowsSaved == mounted /\ autoSaveStatus = "saved" /\ ~saving

\* C27 as stated: whenever the status is Saved and no save is in progress
\* the draft is the one last persisted: when a save call has just resolved
\* it succeeded and carried the draft as it is now, and in a session for a
\* new note in which no save has succeeded the draft is still empty.
C27_SavedMeansPersisted ==
    ShowsSaved =>
        /\ last.ev \in {"autoResolved", "manualResolved"} =>
              (last.ok /\ ~last.stale)
        /\ (id = NoId /\ createdIds = {}) =>
              (Trim(title) = Empty /\ Trim(content) = Empty)

\* from here on the user gives no input, no call fails, the session is open
\* and the trimmed content is not empty
Undisturbed ==
    /\ mounted
    /\ Trim(content) # Empty
    /\ last.ev \in {"timerFired", "autoResolved"}
    /\ last.ev = "autoResolved" => last.ok

\* C28 as stated: when from some point on the user gives no further input,
\* the session stays open, the calls succeed and the trimmed content is not
\* empty, a save call carrying that final draft eventually succeeds.
C28_EveryEditPersisted ==
    <>[]Undisturbed =>
        <>[](last.ev = "autoResolved" /\ last.ok /\ ~last.stale)


\* C29: whenever the save-in-progress guard is set no debounce timer is
\* pending, and no timer expires while a save call is outstanding: after
\* an expiry the only call outstanding is the one it started.
C29_NoTimerWhileSaving ==
    /\ saving => timers = {}
    /\ SaveCalls(inflight) # {} => timers = {}
    /\ last.ev = "timerFired" =>
          Cardinality(SaveCalls(inflight)) = IF last.ok THEN 1 ELSE 0

\* C29 witness: the draft was changed while the call of a manual save is
\* outstanding, and no timer was armed.
C29_Witness ==
    /\ mounted
    /\ saving
    /\ last.ev = "mutate"
    /\ ManualCalls # {}
    /\ Trim(content) # Empty
    /\ timers = {}


\* C30 as stated: no createNote/editNote call starts while a deleteNote
\* call is outstanding, and once deleteNote has succeeded no timer is left
\* to start one.
C30_NoSaveOverDelete ==
    /\ (last.ev \in {"timerFired", "save"} /\ last.ok) => DeleteCalls(inflight) = {}
    /\ (last.ev = "deleteResolved" /\ last.ok) => (~mounted /\ timers = {})

=============================================================================
